---- MODULE Spec2Model ----
(***************************************************************************)
(* yeet-tube: the download-tracking pipeline of the terminal UI.           *)
(*                                                                         *)
(*   src/downloader/downloader.go  DownloadStreamWithProgress, readOutput, *)
(*                                 parseProgress, FetchTitleAsync,         *)
(*                                 extractURLName, saveVideoInfo           *)
(*   src/tui/app.go                model.Update, loadHistory,              *)
(*                                 fetchTitleCmd, startDownloadCmd,        *)
(*                                 tickCmd, truncateString                 *)
(*                                                                         *)
(* Strings are TLA+ strings (ASCII; the glyphs that open the program's     *)
(* message texts are left out, the module's lexer reads ASCII only).       *)
(* A float64 fraction is an integer number of thousandths (FracUnit):      *)
(* 0.05 is 50, 1.0 is 1000, the sentinel -1 is -1000.                      *)
(* View-only state of the UI model (status line, text input, window size,  *)
(* hex stream, download format) is not part of the model.                  *)
(***************************************************************************)
EXTENDS Integers, Sequences, FiniteSets, TLC

(***************************************************************************)
(* Go's strings package, on ASCII strings                                  *)
(***************************************************************************)

\* s[lo:hi] of Go (0-based, hi exclusive).  The program slices within range
\* only; the pattern matchers below also look past the end of a string and
\* find nothing there.
Slice(s, lo, hi) ==
  IF lo >= hi \/ lo >= Len(s) THEN ""
  ELSE SubSeq(s, lo + 1, IF hi < Len(s) THEN hi ELSE Len(s))

\* s[lo:]
SliceFrom(s, lo) == Slice(s, lo, Len(s))

\* the byte s[i] as a one-character string (0-based), "" past the end
CharAt(s, i) == Slice(s, i, i + 1)

\* strings.Index(s, sub): the first 0-based position of sub in s, or -1
Index(s, sub) ==
  LET hits == { i \in 0..(Len(s) - Len(sub)) : Slice(s, i, i + Len(sub)) = sub }
  IN  IF hits = {} THEN -1 ELSE CHOOSE i \in hits : \A j \in hits : i <= j

\* strings.Contains(s, sub)
Contains(s, sub) == Index(s, sub) # -1

LowerChars == "abcdefghijklmnopqrstuvwxyz"

UpperChars == "ABCDEFGHIJKLMNOPQRSTUVWXYZ"

UpperOfChar(c) ==
  LET k == Index(LowerChars, c) IN IF k = -1 THEN c ELSE CharAt(UpperChars, k)

LowerOfChar(c) ==
  LET k == Index(UpperChars, c) IN IF k = -1 THEN c ELSE CharAt(LowerChars, k)

RECURSIVE ToUpper(_)
\* strings.ToUpper(s)
ToUpper(s) == IF s = "" THEN "" ELSE UpperOfChar(Head(s)) \o ToUpper(Tail(s))

RECURSIVE ToLower(_)
\* strings.ToLower(s)
ToLower(s) == IF s = "" THEN "" ELSE LowerOfChar(Head(s)) \o ToLower(Tail(s))

IsSpace(c) == c = " "

RECURSIVE TrimLeft(_)
TrimLeft(s) == IF s # "" /\ IsSpace(Head(s)) THEN TrimLeft(Tail(s)) ELSE s

RECURSIVE TrimRight(_)
TrimRight(s) ==
  IF s # "" /\ IsSpace(CharAt(s, Len(s) - 1))
  THEN TrimRight(Slice(s, 0, Len(s) - 1))
  ELSE s

\* strings.TrimSpace(s)
TrimSpace(s) == TrimRight(TrimLeft(s))

Digits == "0123456789"

IsDigit(c) == c # "" /\ Index(Digits, c) # -1

\* the length of the longest run of characters satisfying IsDigit at the
\* start of s
RECURSIVE DigitRun(_)
DigitRun(s) == IF s # "" /\ IsDigit(Head(s)) THEN 1 + DigitRun(Tail(s)) ELSE 0

\* the length of the longest run of white space at the start of s
RECURSIVE SpaceRun(_)
SpaceRun(s) == IF s # "" /\ IsSpace(Head(s)) THEN 1 + SpaceRun(Tail(s)) ELSE 0

\* the decimal digits of n
RECURSIVE Decimal(_)
Decimal(n) ==
  IF n < 10 THEN CharAt(Digits, n)
  ELSE Decimal(n \div 10) \o CharAt(Digits, n % 10)

\* the value of a string of decimal digits
RECURSIVE ParseNat(_)
ParseNat(s) ==
  IF s = "" THEN 0
  ELSE 10 * ParseNat(Slice(s, 0, Len(s) - 1)) + Index(Digits, CharAt(s, Len(s) - 1))

(***************************************************************************)
(* Pure functions of the program                                           *)
(***************************************************************************)

\* one thousandth is the unit of a fraction: 1.0 is FracUnit
FracUnit == 1000

\* The submatch of regexp \[download\]\s+(\d+(?:\.\d+)?)% anchored at the
\* 0-based position i of line: <<integer digits, fraction digits>>, or <<>>
\* when the pattern does not match there.  \s+ and \d+ are greedy and no
\* shorter run can match (the character after a maximal run is no digit and
\* no space), so the match at a position is unique.
DownloadMatchAt(line, i) ==
  LET tag    == "[download]"
      rest   == SliceFrom(line, i + Len(tag))
      ns     == SpaceRun(rest)
      num    == SliceFrom(rest, ns)
      ni     == DigitRun(num)
      after  == SliceFrom(num, ni)
      nf     == IF after # "" /\ Head(after) = "." THEN DigitRun(Tail(after)) ELSE 0
      \* with the optional group (?:\.\d+) taken
      withF  == nf > 0 /\ CharAt(after, 1 + nf) = "%"
      \* with the optional group skipped
      plain  == after # "" /\ Head(after) = "%"
  IN  IF Slice(line, i, i + Len(tag)) # tag \/ ns = 0 \/ ni = 0 THEN <<>>
      ELSE IF withF THEN <<Slice(num, 0, ni), Slice(after, 1, 1 + nf)>>
      ELSE IF plain THEN <<Slice(num, 0, ni), "">>
      ELSE <<>>

\* downloadRegex.FindStringSubmatch(line): the leftmost match, or <<>>
FindDownloadPercent(line) ==
  LET hits == { i \in 0..Len(line) : DownloadMatchAt(line, i) # <<>> }
  IN  IF hits = {} THEN <<>>
      ELSE DownloadMatchAt(line, CHOOSE i \in hits : \A j \in hits : i <= j)

\* strconv.ParseFloat(m, 64) / 100.0 in thousandths; digits of the percentage
\* after the first fractional digit are below the unit and dropped
PercentToFraction(m) ==
  ParseNat(m[1]) * 10 + (IF m[2] = "" THEN 0 ELSE ParseNat(Slice(m[2], 0, 1)))

\* parseProgress with the stage words looked for before the percentage
parseProgressStagesFirst(line) ==
  LET m == FindDownloadPercent(line)
      l == ToLower(line)
  IN  IF Contains(l, "extracting") \/ Contains(l, "downloading webpage") THEN 50
      ELSE IF Contains(l, "downloading video") THEN 400
      ELSE IF Contains(l, "downloading audio") THEN 700
      ELSE IF Contains(l, "merging") \/ Contains(l, "post-processing") THEN 900
      ELSE IF Contains(l, "finished") \/ Contains(l, "completed") THEN FracUnit
      ELSE IF m # <<>> THEN PercentToFraction(m)
      ELSE IF Contains(l, "[download]") /\ Contains(l, "%") THEN 300
      ELSE -FracUnit

\* parseProgress(line)
parseProgress(line) ==
  LET m == FindDownloadPercent(line)
      l == ToLower(line)
  IN  IF m # <<>> THEN PercentToFraction(m)
      ELSE IF Contains(l, "extracting") \/ Contains(l, "downloading webpage") THEN 50
      ELSE IF Contains(l, "[download]") /\ Contains(l, "%") THEN 300
      ELSE IF Contains(l, "downloading video") THEN 400
      ELSE IF Contains(l, "downloading audio") THEN 700
      ELSE IF Contains(l, "merging") \/ Contains(l, "post-processing") THEN 900
      ELSE IF Contains(l, "finished") \/ Contains(l, "completed") THEN FracUnit
      ELSE -FracUnit

\* the display length over which extractURLName cuts a URL
URLNameLen == 50

\* extractURLName(url)
extractURLName(url) ==
  LET p   == Index(url, "://")
      u   == IF p # -1 THEN SliceFrom(url, p + 3) ELSE url
  IN  IF Contains(u, "youtube.com/watch?v=")
      THEN LET id  == SliceFrom(u, Index(u, "v=") + 2)
               amp == Index(id, "&")
           IN  "YouTube Video: " \o (IF amp # -1 THEN Slice(id, 0, amp) ELSE id)
      ELSE IF Contains(u, "youtu.be/")
      THEN LET id == SliceFrom(u, Index(u, "youtu.be/") + 9)
               q  == Index(id, "?")
           IN  "YouTube Video: " \o (IF q # -1 THEN Slice(id, 0, q) ELSE id)
      ELSE IF Len(u) > URLNameLen THEN Slice(u, 0, URLNameLen - 3) \o "..."
      ELSE u

\* truncateString(s, maxLen)
truncateString(s, maxLen) ==
  IF Len(s) <= maxLen THEN s ELSE Slice(s, 0, maxLen - 3) \o "..."

(***************************************************************************)
(* The history file and encoding/json                                      *)
(***************************************************************************)

\* A JSON member of an object as the decoder sees it: absent, a string or a
\* number.
JAbsent == [t |-> "absent", s |-> "", n |-> 0]

JStr(str) == [t |-> "str", s |-> str, n |-> 0]

JNum(num) == [t |-> "num", s |-> "", n |-> num]

\* A VideoInfo: URL, Title and, for the numeric and string members that are
\* all filled the same best-effort way (Duration ... TBR), Duration.
VideoInfo(url, title, duration) ==
  [URL |-> url, Title |-> title, Duration |-> duration]

\* the zero value of VideoInfo
ZeroInfo == VideoInfo("", "", 0)

\* The content of a file as json.Unmarshal reads it:
\*   missing  os.ReadFile fails
\*   invalid  not a JSON text (empty, cut short, garbage)
\*   value    a JSON text that is no array (an object, a number, null)
\*   array    a JSON array; an element is an object with members url, title,
\*            duration, or (obj = FALSE) some other JSON value
MissingFile == [kind |-> "missing", elems |-> <<>>]

InvalidFile == [kind |-> "invalid", elems |-> <<>>]

ValueFile == [kind |-> "value", elems |-> <<>>]

ArrayFile(elems) == [kind |-> "array", elems |-> elems]

JObject(url, title, duration) ==
  [obj |-> TRUE, url |-> url, title |-> title, duration |-> duration]

\* an array element that is no object, such as a number
JOther == [obj |-> FALSE, url |-> JAbsent, title |-> JAbsent, duration |-> JAbsent]

\* json.MarshalIndent(infos, "", "  ") of a []VideoInfo
MarshalIndent(infos) ==
  ArrayFile([k \in 1..Len(infos) |->
               JObject(JStr(infos[k].URL), JStr(infos[k].Title),
                       JNum(infos[k].Duration))])

\* The decoder on one array element, into a zero VideoInfo: a member of the
\* right JSON type is stored, any other is skipped (UnmarshalTypeError is
\* recorded and decoding goes on); an element that is no object leaves the
\* zero value.
DecodeElem(e) ==
  IF ~e.obj THEN ZeroInfo
  ELSE VideoInfo(IF e.url.t = "str" THEN e.url.s ELSE "",
                 IF e.title.t = "str" THEN e.title.s ELSE "",
                 IF e.duration.t = "num" THEN e.duration.n ELSE 0)

\* json.Unmarshal(data, &infos) on a nil infos, its error dropped as both
\* callers drop it: the slice infos holds afterwards
Unmarshal(f) ==
  IF f.kind = "array" THEN [k \in 1..Len(f.elems) |-> DecodeElem(f.elems[k])]
  ELSE <<>>

\* whether that json.Unmarshal returns an error: the text is no JSON, its
\* value is no array, or a value in it has the wrong JSON type for its place
UnmarshalError(f) ==
  \/ f.kind \in {"invalid", "value"}
  \/ /\ f.kind = "array"
     /\ \E k \in 1..Len(f.elems) :
          \/ ~f.elems[k].obj
          \/ f.elems[k].url.t = "num"
          \/ f.elems[k].title.t = "num"
          \/ f.elems[k].duration.t = "str"

\* loadHistory(path)
loadHistory(f) == IF f.kind = "missing" THEN <<>> ELSE Unmarshal(f)

\* saveVideoInfo, lines 318-323: the slice to write, from the file as read
AppendInfo(f, info) ==
  Append(IF f.kind = "missing" THEN <<>> ELSE Unmarshal(f), info)

(***************************************************************************)
(* Program constants and the bounds of the model                           *)
(***************************************************************************)

\* make(chan downloader.ProgressFractionMsg, 50)
ProgressChCap == 50

\* make(chan downloader.TitleFetchedMsg, 1)
ResultChCap == 1

\* if len(vd.Log) > 5
LogCap == 5

\* truncateString(..., 28)
NameLen == 28

\* at most MaxQueue URLs are submitted
MaxQueue == 2

\* at most MaxDownloads URLs are submitted where a download is followed from
\* its first line to its last event
MaxDownloads == 1

\* at most MaxLines lines are read from the output streams of all downloads
MaxLines == 2

\* the progress lines of the subprocess of FloodSpec
FloodLines == 52

\* at most MaxErrLines numbered warnings come on stderr in OrderSpec
MaxErrLines == 1

\* and the first of them is read when WarnAfter lines of stdout were read
WarnAfter == 48

\* at most MaxLogLines lines are read from the stream in LogSpec
MaxLogLines == 5

\* at most MaxAppends records are appended in HistorySpec
MaxAppends == 2

\* the inputs of the text field on enter
Inputs ==
  { "  ", "https://youtu.be/abc123?t=5", " https://www.youtube.com/watch?v=xyz&t=1" }

\* further texts of the text field, for the fallback names: a bare scheme,
\* a host with an empty identifier, a URL without scheme, and one that is
\* longer than URLNameLen after its scheme
NameInputs ==
  { "x://", "https://youtu.be/", "example.com/v",
    "https://example.com/videos/2024/a-very-long-path-name/clip-000123.mp4" }

\* the raw lines a stream of the fetch subprocess yields
Lines == { "[download]  50.0% of 9MiB", "[Merger] Merging formats", "hello", "  " }

\* lines for parseProgress: percentages with and without milestone words,
\* each milestone alone and with later ones, in either case, lines with
\* nothing to find, and a percentage over 100
ParseLines ==
  { "[download]  50.5% of 10MiB",
    "[download]   7.0% Extracting merging",
    "[download] 0.0% of 9MiB",
    "[download] 100% of 9MiB finished",
    "[youtube] Extracting URL: merging finished",
    "[youtube] abc: Downloading webpage",
    "[DOWNLOAD] 12% downloading video",
    "[download]50% completed",
    "[info] Downloading video and downloading audio",
    "[info] downloading audio, merging",
    "[Merger] Merging formats, finished",
    "[ffmpeg] Post-Processing completed",
    "Finished",
    "Completed",
    "hello",
    "[download] Destination: a.mp4",
    "[download] 150.0% of 9MiB" }

\* the titles a successful title lookup prints
Titles == { "Big Buck Bunny" }

\* what yt-dlp --dump-json gives saveVideoInfo: the command fails, its
\* output is no JSON object, or an object with or without a string title
Metas ==
  { [kind |-> "fail", title |-> JAbsent, duration |-> JAbsent],
    [kind |-> "invalid", title |-> JAbsent, duration |-> JAbsent],
    [kind |-> "map", title |-> JAbsent, duration |-> JNum(60)],
    [kind |-> "map", title |-> JNum(7), duration |-> JNum(60)],
    [kind |-> "map", title |-> JStr("Big Buck Bunny"), duration |-> JNum(60)],
    [kind |-> "map", title |-> JStr("Big Buck Bunny"), duration |-> JAbsent] }

\* downloads.json when the program starts: absent, or left by earlier runs
InitialFiles ==
  { MissingFile,
    MarshalIndent(<<VideoInfo("https://youtu.be/old1", "Old One", 10),
                    VideoInfo("https://youtu.be/old2", "Old Two", 20)>>) }

\* the files HistorySpec starts from: those above, an empty file, a JSON
\* object, an empty array, and arrays with an element that is a number, or
\* an object whose url is a number
StoreFiles ==
  InitialFiles \cup
  { InvalidFile, ValueFile, ArrayFile(<<>>),
    ArrayFile(<<JOther>>),
    ArrayFile(<<JObject(JNum(5), JStr("Old One"), JNum(10)),
                JObject(JStr("https://youtu.be/old2"), JStr("Old Two"), JNum(20))>>) }

\* the records HistorySpec appends
Records ==
  { VideoInfo("https://youtu.be/abc123?t=5", "Big Buck Bunny", 60),
    VideoInfo("https://youtu.be/abc123?t=5", "Big Buck Bunny", 0),
    VideoInfo("https://www.youtube.com/watch?v=xyz&t=1", "Sintel", 90) }

Streams == { "stderr", "stdout" }

(***************************************************************************)
(* State                                                                   *)
(***************************************************************************)

VARIABLES
  videoQueue,     \* model.videoQueue: the VideoDownload entries, in order
  history,        \* model.history
  selectedIndex,  \* model.selectedIndex
  tickPending,    \* a tickCmd timer is running
  file,           \* the content of downloads.json
  crashed,        \* the process died of a panic
  titleFetch,     \* per entry: its fetchTitleCmd and FetchTitleAsync worker
  download,       \* per entry: its DownloadStreamWithProgress goroutines
  emitted,        \* per entry: every invocation of its progress callback
  consumed,       \* per entry: every event Update received from its channel
  reads,          \* lines read so far from all streams
  written         \* the records saveVideoInfo wrote to the file, in order

vars ==
  <<videoQueue, history, selectedIndex, tickPending, file, crashed,
    titleFetch, download, emitted, consumed, reads, written>>

Entries == 1..Len(videoQueue)

Event(f, line) == [Fraction |-> f, Line |-> line]

\* the end-of-stream marker, callback(1.0, "")
EndMarker == Event(FracUnit, "")

Placeholder == "SCANNING TIMELINE..."

\* the VideoDownload that enter creates
NewVideoDownload(url) ==
  [URL |-> url, Name |-> Placeholder, Percent |-> 0, Log |-> <<>>,
   ProgressCh |-> [buf |-> <<>>, closed |-> FALSE],
   Done |-> FALSE, TitleFetched |-> FALSE]

NoMsg == [url |-> "", title |-> "", err |-> FALSE]

NewTitleFetch == [worker |-> "running", resultCh |-> <<>>, cmd |-> "select", msg |-> NoMsg]

NewDownload ==
  [pc |-> "spawn", stderr |-> "idle", stdout |-> "idle", outcome |-> "",
   info |-> ZeroInfo, data |-> MissingFile]

Init ==
  /\ file \in InitialFiles
  /\ videoQueue = <<>>
  /\ history = loadHistory(file)
  /\ selectedIndex = 0
  /\ tickPending = TRUE
  /\ crashed = FALSE
  /\ titleFetch = <<>>
  /\ download = <<>>
  /\ emitted = <<>>
  /\ consumed = <<>>
  /\ reads = 0
  /\ written = <<>>

(***************************************************************************)
(* The progress callback of startDownloadCmd                               *)
(***************************************************************************)

\* select { case vd.ProgressCh <- msg: default: }
\* a send that puts the event in front of the waiting ones
SendInFront(ch, ev) ==
  IF Len(ch.buf) < ProgressChCap THEN [ch EXCEPT !.buf = <<ev>> \o @] ELSE ch

\* a send that blocks until there is room, seen from the sender: the event
\* always gets in
SendBlocking(ch, ev) == [ch EXCEPT !.buf = Append(@, ev)]

Send(ch, ev) ==
  IF Len(ch.buf) < ProgressChCap THEN [ch EXCEPT !.buf = Append(@, ev)] ELSE ch

\* the callback of entry i invoked with (f, line)
Callback(i, f, line) ==
  /\ videoQueue' = [videoQueue EXCEPT ![i].ProgressCh = Send(@, Event(f, line))]
  /\ emitted' = [emitted EXCEPT ![i] = Append(@, Event(f, line))]

(***************************************************************************)
(* DownloadStreamWithProgress: the supervisor goroutine of entry i         *)
(***************************************************************************)

SpawnErrors ==
  { "Error creating stderr pipe: err", "Error creating stdout pipe: err",
    "Error starting download: err" }

\* DownloadStart without the return statements of lines 67, 73 and 78: the
\* error is reported and the run goes on to start the readers
DownloadStartNoReturn(i) ==
  /\ ~crashed
  /\ download[i].pc = "spawn"
  /\ \/ \E msg \in SpawnErrors :
          /\ Callback(i, 0, msg)
          /\ download' = [download EXCEPT ![i].pc = "readers",
                                          ![i].outcome = "spawnerr",
                                          ![i].stderr = "reading",
                                          ![i].stdout = "reading"]
     \/ /\ download' = [download EXCEPT ![i].pc = "readers",
                                        ![i].stderr = "reading",
                                        ![i].stdout = "reading"]
        /\ UNCHANGED <<videoQueue, emitted>>
  /\ UNCHANGED <<history, selectedIndex, tickPending, file, crashed,
                 titleFetch, consumed, reads, written>>

\* lines 56-92: the pipes, cmd.Start, the two readers
DownloadStart(i) ==
  /\ ~crashed
  /\ download[i].pc = "spawn"
  /\ \/ \E msg \in SpawnErrors :
          /\ Callback(i, 0, msg)
          /\ download' = [download EXCEPT ![i].pc = "returned",
                                          ![i].outcome = "spawnerr"]
     \/ /\ download' = [download EXCEPT ![i].pc = "readers",
                                        ![i].stderr = "reading",
                                        ![i].stdout = "reading"]
        /\ UNCHANGED <<videoQueue, emitted>>
  /\ UNCHANGED <<history, selectedIndex, tickPending, file, crashed,
                 titleFetch, consumed, reads, written>>

\* readOutput, lines 115-121, on each raw line of Lines: the trimmed line and,
\* where it is not empty, its parseProgress
Scanned ==
  [raw \in Lines |->
     LET line == TrimSpace(raw)
     IN  [line |-> line,
          fraction |-> IF line = "" THEN 0 ELSE parseProgress(line)]]

\* Scanned, on the lines of ParseLines
ParseScanned ==
  [raw \in ParseLines |->
     LET line == TrimSpace(raw)
     IN  [line |-> line,
          fraction |-> IF line = "" THEN 0 ELSE parseProgress(line)]]

\* the nth progress line of a subprocess that reports every percent
FloodLine(n) == "[download]  " \o Decimal(n) \o "% of 9MiB"

\* Scanned, on the lines FloodLine(1) ... FloodLine(FloodLines)
FloodScanned ==
  [n \in 1..FloodLines |->
     LET line == TrimSpace(FloodLine(n))
     IN  [line |-> line,
          fraction |-> IF line = "" THEN 0 ELSE parseProgress(line)]]

\* the nth line of a stderr that numbers its warnings
WarningLine(n) == "WARNING: retry " \o Decimal(n)

\* Scanned, on the lines WarningLine(1) ... WarningLine(MaxErrLines)
WarningScanned ==
  [n \in 1..MaxErrLines |->
     LET line == TrimSpace(WarningLine(n))
     IN  [line |-> line,
          fraction |-> IF line = "" THEN 0 ELSE parseProgress(line)]]

\* the stream a line of those two streams is of ("" for any other text)
StreamOf(line) ==
  IF Slice(line, 0, 10) = "[download]" THEN "stdout"
  ELSE IF Slice(line, 0, 15) = "WARNING: retry " THEN "stderr"
  ELSE ""

\* the number, within its stream, of a line of those two streams
LineNumber(line) ==
  IF StreamOf(line) = "stdout" THEN ParseNat(Slice(line, 12, Index(line, "%")))
  ELSE ParseNat(SliceFrom(line, 15))

\* how many lines of stream s the reader of entry i has passed to the
\* callback
ReadCount(i, s) ==
  Cardinality({ k \in 1..Len(emitted[i]) : StreamOf(emitted[i][k].Line) = s })

\* readOutput, lines 114-125: one scanner.Scan that yields a line, sc being
\* the line trimmed and its parseProgress
readOutputLine(i, s, sc, budget) ==
  /\ ~crashed
  /\ download[i][s] = "reading"
  /\ reads < budget
  /\ reads' = reads + 1
  /\ IF sc.line = "" THEN UNCHANGED <<videoQueue, emitted>>
     ELSE Callback(i, sc.fraction, sc.line)
  /\ UNCHANGED <<history, selectedIndex, tickPending, file, crashed,
                 titleFetch, download, consumed, written>>

\* readOutputError with the error ending the readers of both streams
readOutputErrorEndsBoth(i, s) ==
  /\ ~crashed
  /\ download[i][s] = "reading"
  /\ Callback(i, -FracUnit, "Error reading " \o s \o ": err")
  /\ download' = [download EXCEPT ![i].stderr = "done", ![i].stdout = "done"]
  /\ UNCHANGED <<history, selectedIndex, tickPending, file, crashed,
                 titleFetch, consumed, reads, written>>

\* readOutput, lines 127-129: the scan ends on a read error
readOutputError(i, s) ==
  /\ ~crashed
  /\ download[i][s] = "reading"
  /\ Callback(i, -FracUnit, "Error reading " \o s \o ": err")
  /\ download' = [download EXCEPT ![i][s] = "done"]
  /\ UNCHANGED <<history, selectedIndex, tickPending, file, crashed,
                 titleFetch, consumed, reads, written>>

\* readOutput: the scan ends at the end of the stream
readOutputEOF(i, s) ==
  /\ ~crashed
  /\ download[i][s] = "reading"
  /\ download' = [download EXCEPT ![i][s] = "done"]
  /\ UNCHANGED <<videoQueue, history, selectedIndex, tickPending, file, crashed,
                 titleFetch, emitted, consumed, reads, written>>

\* DownloadWait without wg.Wait: the subprocess is waited for while the
\* readers may still be reading
DownloadWaitNoWaitGroup(i) ==
  /\ ~crashed
  /\ download[i].pc = "readers"
  /\ \/ /\ Callback(i, FracUnit, "Download failed: err")
        /\ download' = [download EXCEPT ![i].pc = "marker", ![i].outcome = "failed"]
     \/ /\ Callback(i, FracUnit, "Variant pruned - Timeline restored!")
        /\ download' = [download EXCEPT ![i].pc = "save", ![i].outcome = "ok"]
  /\ UNCHANGED <<history, selectedIndex, tickPending, file, crashed,
                 titleFetch, consumed, reads, written>>

\* DownloadWait with a return after the failure event, as after the pipe and
\* start errors
DownloadWaitReturnOnFailure(i) ==
  /\ ~crashed
  /\ download[i].pc = "readers"
  /\ download[i].stderr = "done"
  /\ download[i].stdout = "done"
  /\ \/ /\ Callback(i, FracUnit, "Download failed: err")
        /\ download' = [download EXCEPT ![i].pc = "returned", ![i].outcome = "failed"]
     \/ /\ Callback(i, FracUnit, "Variant pruned - Timeline restored!")
        /\ download' = [download EXCEPT ![i].pc = "save", ![i].outcome = "ok"]
  /\ UNCHANGED <<history, selectedIndex, tickPending, file, crashed,
                 titleFetch, consumed, reads, written>>

\* lines 94-99: wg.Wait, cmd.Wait and the completion event
DownloadWait(i) ==
  /\ ~crashed
  /\ download[i].pc = "readers"
  /\ download[i].stderr = "done"
  /\ download[i].stdout = "done"
  /\ \/ /\ Callback(i, FracUnit, "Download failed: err")
        /\ download' = [download EXCEPT ![i].pc = "marker", ![i].outcome = "failed"]
     \/ /\ Callback(i, FracUnit, "Variant pruned - Timeline restored!")
        /\ download' = [download EXCEPT ![i].pc = "save", ![i].outcome = "ok"]
  /\ UNCHANGED <<history, selectedIndex, tickPending, file, crashed,
                 titleFetch, consumed, reads, written>>

\* saveVideoInfo, lines 270-323: the metadata command, its decoding, the
\* type assertion on the title (which panics on a title that is absent or no
\* string), then os.ReadFile and the record appended
saveVideoInfoRead(i, meta) ==
  /\ ~crashed
  /\ download[i].pc = "save"
  /\ IF meta.kind # "map"
     THEN /\ download' = [download EXCEPT ![i].pc = "marker"]
          /\ UNCHANGED crashed
     ELSE IF meta.title.t # "str"
     THEN /\ crashed' = TRUE
          /\ UNCHANGED download
     ELSE LET info == VideoInfo(videoQueue[i].URL, meta.title.s,
                                IF meta.duration.t = "num" THEN meta.duration.n ELSE 0)
          IN  /\ download' = [download EXCEPT
                                ![i].pc = "write",
                                ![i].info = info,
                                ![i].data = MarshalIndent(AppendInfo(file, info))]
              /\ UNCHANGED crashed
  /\ UNCHANGED <<videoQueue, history, selectedIndex, tickPending, file,
                 titleFetch, emitted, consumed, reads, written>>

\* os.WriteFile, first half: the file is opened with O_TRUNC (or the open
\* fails and saveVideoInfo returns)
saveVideoInfoTruncate(i) ==
  /\ ~crashed
  /\ download[i].pc = "write"
  /\ \/ /\ file' = InvalidFile
        /\ download' = [download EXCEPT ![i].pc = "write2"]
     \/ /\ download' = [download EXCEPT ![i].pc = "marker"]
        /\ UNCHANGED file
  /\ UNCHANGED <<videoQueue, history, selectedIndex, tickPending, crashed,
                 titleFetch, emitted, consumed, reads, written>>

\* os.WriteFile, second half: the data is written
saveVideoInfoWrite(i) ==
  /\ ~crashed
  /\ download[i].pc = "write2"
  /\ file' = download[i].data
  /\ written' = Append(written, download[i].info)
  /\ download' = [download EXCEPT ![i].pc = "marker"]
  /\ UNCHANGED <<videoQueue, history, selectedIndex, tickPending, crashed,
                 titleFetch, emitted, consumed, reads>>

\* line 106: callback(1.0, "")
DownloadMarker(i) ==
  /\ ~crashed
  /\ download[i].pc = "marker"
  /\ Callback(i, EndMarker.Fraction, EndMarker.Line)
  /\ download' = [download EXCEPT ![i].pc = "returned"]
  /\ UNCHANGED <<history, selectedIndex, tickPending, file, crashed,
                 titleFetch, consumed, reads, written>>

(***************************************************************************)
(* FetchTitleAsync and fetchTitleCmd of entry i                            *)
(***************************************************************************)

\* the outcomes of yt-dlp --get-title within its 10 s context: a title is
\* printed, nothing is printed, the command fails or is killed
LookupOutcomes ==
  { [err |-> FALSE, out |-> t] : t \in Titles }
    \cup { [err |-> FALSE, out |-> "  "], [err |-> TRUE, out |-> ""] }

\* FetchTitleAsync, lines 180-210: the TitleFetchedMsg given to the callback
TitleResult(url, o) ==
  LET title == IF o.err THEN "" ELSE TrimSpace(o.out)
  IN  IF title = ""
      THEN [url |-> url, title |-> extractURLName(url), err |-> o.err]
      ELSE [url |-> url, title |-> title, err |-> FALSE]

\* a send on a resultCh of no capacity: it needs the select of
\* fetchTitleCmd to be receiving
CanSendResultUnbuffered(i) == titleFetch[i].cmd = "select"

\* the send resultCh <- msg of line 411 can proceed: the channel has room,
\* or the select of fetchTitleCmd is receiving
CanSendResult(i) ==
  \/ Len(titleFetch[i].resultCh) < ResultChCap
  \/ titleFetch[i].cmd = "select"

\* the worker goroutine ends: cmd.Run returned o, and the callback puts the
\* result into resultCh (capacity 1, one send: it never blocks)
FetchTitleAsync(i, o) ==
  /\ ~crashed
  /\ titleFetch[i].worker = "running"
  /\ CanSendResult(i)
  /\ titleFetch' = [titleFetch EXCEPT
                      ![i].worker = "done",
                      ![i].resultCh = <<TitleResult(videoQueue[i].URL, o)>>]
  /\ UNCHANGED <<videoQueue, history, selectedIndex, tickPending, file, crashed,
                 download, emitted, consumed, reads, written>>

\* fetchTitleCmd, lines 415-420: the select takes the result
fetchTitleCmdResult(i) ==
  /\ ~crashed
  /\ titleFetch[i].cmd = "select"
  /\ titleFetch[i].resultCh # <<>>
  /\ titleFetch' = [titleFetch EXCEPT
                      ![i].cmd = "sent",
                      ![i].msg = Head(titleFetch[i].resultCh),
                      ![i].resultCh = <<>>]
  /\ UNCHANGED <<videoQueue, history, selectedIndex, tickPending, file, crashed,
                 download, emitted, consumed, reads, written>>

\* fetchTitleCmd, lines 421-426: the select takes the 10 s timer.  The timer
\* starts when the select is entered, so it fires on a goroutine parked in
\* the select; a result sent before that was handed to the parked goroutine
\* and has decided the select
fetchTitleCmdTimeout(i) ==
  /\ ~crashed
  /\ titleFetch[i].cmd = "select"
  /\ titleFetch[i].resultCh = <<>>
  /\ titleFetch' = [titleFetch EXCEPT
                      ![i].cmd = "sent",
                      ![i].msg = [url |-> videoQueue[i].URL, title |-> "", err |-> TRUE]]
  /\ UNCHANGED <<videoQueue, history, selectedIndex, tickPending, file, crashed,
                 download, emitted, consumed, reads, written>>

(***************************************************************************)
(* model.Update                                                            *)
(***************************************************************************)

\* TitleName with the resolver's title taken on every path
TitleNameOfResolver(msg) == truncateString(ToUpper(msg.title), NameLen)

\* lines 93-103: the name a titleFetchedMsg gives an entry
TitleName(msg) ==
  IF ~msg.err /\ msg.title # ""
  THEN truncateString(ToUpper(msg.title), NameLen)
  ELSE truncateString(ToUpper(msg.url), NameLen)

\* lines 91-92, 104: the entry the loop over videoQueue stops at
TitleTarget(q, msg) ==
  LET hits == { k \in 1..Len(q) : q[k].URL = msg.url }
  IN  IF hits = {} THEN 0 ELSE CHOOSE k \in hits : \A j \in hits : k <= j

\* case titleFetchedMsg: the message of the fetchTitleCmd of entry i
UpdateTitleFetched(i) ==
  /\ ~crashed
  /\ titleFetch[i].cmd = "sent"
  /\ LET msg == titleFetch[i].msg
         k   == TitleTarget(videoQueue, msg)
     IN  videoQueue' =
           IF k = 0 THEN videoQueue
           ELSE [videoQueue EXCEPT ![k].Name = TitleName(msg),
                                   ![k].TitleFetched = TRUE]
  /\ titleFetch' = [titleFetch EXCEPT ![i].cmd = "done"]
  /\ UNCHANGED <<history, selectedIndex, tickPending, file, crashed,
                 download, emitted, consumed, reads, written>>

\* line 119: strings.TrimSpace(m.textInput.Value()) on each input
Trimmed == [input \in Inputs \cup NameInputs |-> TrimSpace(input)]

\* UpdateEnter that puts the new entry in front of the queue
UpdateEnterInFront(input, maxQueue) ==
  /\ ~crashed
  /\ Len(videoQueue) < maxQueue
  /\ LET url == Trimmed[input]
     IN  IF url = ""
         THEN UNCHANGED <<videoQueue, titleFetch, download, emitted, consumed>>
         ELSE /\ videoQueue' = <<NewVideoDownload(url)>> \o videoQueue
              /\ titleFetch' = <<NewTitleFetch>> \o titleFetch
              /\ download' = <<NewDownload>> \o download
              /\ emitted' = <<(<<>>)>> \o emitted
              /\ consumed' = <<(<<>>)>> \o consumed
  /\ UNCHANGED <<history, selectedIndex, tickPending, file, crashed, reads, written>>

\* case "enter", lines 119-140, with the text field holding input; the two
\* commands it returns start the title lookup and the download
UpdateEnter(input, maxQueue) ==
  /\ ~crashed
  /\ Len(videoQueue) < maxQueue
  /\ LET url == Trimmed[input]
     IN  IF url = ""
         THEN UNCHANGED <<videoQueue, titleFetch, download, emitted, consumed>>
         ELSE /\ videoQueue' = Append(videoQueue, NewVideoDownload(url))
              /\ titleFetch' = Append(titleFetch, NewTitleFetch)
              /\ download' = Append(download, NewDownload)
              /\ emitted' = Append(emitted, <<>>)
              /\ consumed' = Append(consumed, <<>>)
  /\ UNCHANGED <<history, selectedIndex, tickPending, file, crashed, reads, written>>

\* case "up"
UpdateKeyUp ==
  /\ ~crashed
  /\ selectedIndex' = IF selectedIndex > 0 THEN selectedIndex - 1 ELSE selectedIndex
  /\ UNCHANGED <<videoQueue, history, tickPending, file, crashed,
                 titleFetch, download, emitted, consumed, reads, written>>

\* case "down"
UpdateKeyDown ==
  /\ ~crashed
  /\ selectedIndex' =
       IF selectedIndex < Len(history) - 1 THEN selectedIndex + 1 ELSE selectedIndex
  /\ UNCHANGED <<videoQueue, history, tickPending, file, crashed,
                 titleFetch, download, emitted, consumed, reads, written>>

\* what the select of lines 159-189 does on entry vd
\*   "skip"   vd.Done, or nothing to receive (default)
\*   "closed" the channel is closed and empty (!ok)
\*   "event"  an event is received
DrainCase(vd) ==
  IF vd.Done THEN "skip"
  ELSE IF vd.ProgressCh.buf # <<>> THEN "event"
  ELSE IF vd.ProgressCh.closed THEN "closed"
  ELSE "skip"

\* ApplyEvent with a Percent that never goes down
ApplyEventMonotonic(vd, ev) ==
  LET log == IF ev.Line # "" THEN Append(vd.Log, ev.Line) ELSE vd.Log
  IN  [vd EXCEPT
         !.Percent = IF ev.Fraction >= @ THEN ev.Fraction ELSE @,
         !.Log = IF Len(log) > LogCap THEN Tail(log) ELSE log]

\* ApplyEvent with a full Log that refuses the new line
ApplyEventKeepOldest(vd, ev) ==
  LET log == IF ev.Line # "" THEN Append(vd.Log, ev.Line) ELSE vd.Log
  IN  [vd EXCEPT
         !.Percent = IF ev.Fraction >= 0 THEN ev.Fraction ELSE @,
         !.Log = IF Len(log) > LogCap THEN SubSeq(log, 1, LogCap) ELSE log]

\* lines 173-182: an event applied to the entry
ApplyEvent(vd, ev) ==
  LET log == IF ev.Line # "" THEN Append(vd.Log, ev.Line) ELSE vd.Log
  IN  [vd EXCEPT
         !.Percent = IF ev.Fraction >= 0 THEN ev.Fraction ELSE @,
         !.Log = IF Len(log) > LogCap THEN Tail(log) ELSE log]

\* lines 155-190 on one entry
DrainEntry(vd) ==
  CASE DrainCase(vd) = "skip"   -> vd
    [] DrainCase(vd) = "closed" -> [vd EXCEPT !.Done = TRUE]
    [] DrainCase(vd) = "event"  ->
         ApplyEvent([vd EXCEPT !.ProgressCh.buf = Tail(@)], Head(vd.ProgressCh.buf))

\* case setFormatMsg, lines 151-191: the drain of every entry that is not
\* done, the history reloaded where a channel was found closed, and the next
\* tick scheduled.  No command of the program produces a setFormatMsg: it
\* reaches Update through the runtime only.
UpdateSetFormat ==
  /\ ~crashed
  /\ videoQueue' = [k \in Entries |-> DrainEntry(videoQueue[k])]
  /\ consumed' = [k \in Entries |->
                    IF DrainCase(videoQueue[k]) = "event"
                    THEN Append(consumed[k], Head(videoQueue[k].ProgressCh.buf))
                    ELSE consumed[k]]
  /\ IF \E k \in Entries : DrainCase(videoQueue[k]) = "closed"
     THEN /\ history' = loadHistory(file)
          /\ selectedIndex' = IF selectedIndex >= Len(loadHistory(file))
                              THEN Len(loadHistory(file)) - 1
                              ELSE selectedIndex
     ELSE UNCHANGED <<history, selectedIndex>>
  /\ tickPending' = TRUE
  /\ UNCHANGED <<file, crashed, titleFetch, download, emitted, reads, written>>

\* a tickMsg arrives: the switch of Update has no case for it, nothing is
\* drained and no further tick is scheduled
UpdateTick ==
  /\ ~crashed
  /\ tickPending
  /\ tickPending' = FALSE
  /\ UNCHANGED <<videoQueue, history, selectedIndex, file, crashed,
                 titleFetch, download, emitted, consumed, reads, written>>

(***************************************************************************)
(* Specifications                                                          *)
(*                                                                         *)
(* Spec is the whole program.  Its parts multiply - the title lookup, the  *)
(* download, the keys and the history file of every entry run side by      *)
(* side - so each property is checked under the specification of the parts *)
(* it is about; every behaviour of these is a behaviour of Spec in which   *)
(* the other goroutines have not been scheduled and the other keys have    *)
(* not been pressed:                                                       *)
(*   DownloadSpec  one download from enter to the end-of-stream marker,    *)
(*                 and the drain of its channel                            *)
(*   FloodSpec     one download whose stderr prints FloodLines progress    *)
(*                 lines, and the drain of its channel                     *)
(*   TitleSpec     the title lookups of up to MaxQueue entries             *)
(*   SaveSpec      the downloads of up to MaxQueue entries whose streams   *)
(*                 print nothing, up to their history records              *)
(***************************************************************************)

Next ==
  \/ \E input \in Inputs : UpdateEnter(input, MaxQueue)
  \/ UpdateKeyUp
  \/ UpdateKeyDown
  \/ UpdateSetFormat
  \/ UpdateTick
  \/ \E i \in Entries : UpdateTitleFetched(i)
  \/ \E i \in Entries, o \in LookupOutcomes : FetchTitleAsync(i, o)
  \/ \E i \in Entries : fetchTitleCmdResult(i)
  \/ \E i \in Entries : fetchTitleCmdTimeout(i)
  \/ \E i \in Entries : DownloadStart(i)
  \/ \E i \in Entries, s \in Streams, raw \in Lines :
       readOutputLine(i, s, Scanned[raw], MaxLines)
  \/ \E i \in Entries, s \in Streams : readOutputError(i, s)
  \/ \E i \in Entries, s \in Streams : readOutputEOF(i, s)
  \/ \E i \in Entries : DownloadWait(i)
  \/ \E i \in Entries, meta \in Metas : saveVideoInfoRead(i, meta)
  \/ \E i \in Entries : saveVideoInfoTruncate(i)
  \/ \E i \in Entries : saveVideoInfoWrite(i)
  \/ \E i \in Entries : DownloadMarker(i)

Spec == Init /\ [][Next]_vars

DownloadNext ==
  \/ \E input \in Inputs : UpdateEnter(input, MaxDownloads)
  \/ UpdateSetFormat
  \/ UpdateTick
  \/ \E i \in Entries : DownloadStart(i)
  \/ \E i \in Entries, s \in Streams, raw \in Lines :
       readOutputLine(i, s, Scanned[raw], MaxLines)
  \/ \E i \in Entries, s \in Streams : readOutputError(i, s)
  \/ \E i \in Entries, s \in Streams : readOutputEOF(i, s)
  \/ \E i \in Entries : DownloadWait(i)
  \/ \E i \in Entries, meta \in Metas : saveVideoInfoRead(i, meta)
  \/ \E i \in Entries : saveVideoInfoTruncate(i)
  \/ \E i \in Entries : saveVideoInfoWrite(i)
  \/ \E i \in Entries : DownloadMarker(i)

DownloadSpec == Init /\ [][DownloadNext]_vars

\* DownloadSpec with the runtime delivering every message in the end and the
\* Go scheduler running every goroutine that can take a step; the subprocess
\* closes its streams in the end
FairDownloadSpec ==
  /\ DownloadSpec
  /\ WF_vars(UpdateSetFormat)
  /\ WF_vars(UpdateTick)
  /\ WF_vars(\E i \in Entries : DownloadStart(i))
  /\ WF_vars(\E i \in Entries, s \in Streams : readOutputEOF(i, s))
  /\ WF_vars(\E i \in Entries : DownloadWait(i))
  /\ WF_vars(\E i \in Entries, meta \in Metas : saveVideoInfoRead(i, meta))
  /\ WF_vars(\E i \in Entries : saveVideoInfoTruncate(i))
  /\ WF_vars(\E i \in Entries : saveVideoInfoWrite(i))
  /\ WF_vars(\E i \in Entries : DownloadMarker(i))

FloodNext ==
  \/ \E input \in Inputs : UpdateEnter(input, MaxDownloads)
  \/ UpdateSetFormat
  \/ \E i \in Entries : DownloadStart(i)
  \/ \E i \in Entries :
       /\ reads < FloodLines
       /\ readOutputLine(i, "stderr", FloodScanned[reads + 1], FloodLines)

FloodSpec == Init /\ [][FloodNext]_vars

TitleNext ==
  \/ \E input \in Inputs : UpdateEnter(input, MaxQueue)
  \/ \E i \in Entries : UpdateTitleFetched(i)
  \/ \E i \in Entries, o \in LookupOutcomes : FetchTitleAsync(i, o)
  \/ \E i \in Entries : fetchTitleCmdResult(i)
  \/ \E i \in Entries : fetchTitleCmdTimeout(i)

TitleSpec == Init /\ [][TitleNext]_vars

SaveNext ==
  \/ \E input \in Inputs : UpdateEnter(input, MaxQueue)
  \/ \E i \in Entries : DownloadStart(i)
  \/ \E i \in Entries, s \in Streams : readOutputEOF(i, s)
  \/ \E i \in Entries : DownloadWait(i)
  \/ \E i \in Entries, meta \in Metas : saveVideoInfoRead(i, meta)
  \/ \E i \in Entries : saveVideoInfoTruncate(i)
  \/ \E i \in Entries : saveVideoInfoWrite(i)
  \/ \E i \in Entries : DownloadMarker(i)

SaveSpec == Init /\ [][SaveNext]_vars

\* saveVideoInfo, lines 318-327, run from the read to the write with no
\* other writer in between, on the record info
HistoryAppend(info) ==
  /\ Len(written) < MaxAppends
  /\ file' = MarshalIndent(AppendInfo(file, info))
  /\ written' = Append(written, info)
  /\ UNCHANGED <<videoQueue, history, selectedIndex, tickPending, crashed,
                 titleFetch, download, emitted, consumed, reads>>

\* m.history = loadHistory("downloads.json")
HistoryLoad ==
  /\ history' = loadHistory(file)
  /\ UNCHANGED <<videoQueue, selectedIndex, tickPending, file, crashed,
                 titleFetch, download, emitted, consumed, reads, written>>

\* InitialModel, the file being any of StoreFiles
HistoryInit ==
  /\ file \in StoreFiles
  /\ videoQueue = <<>>
  /\ history = loadHistory(file)
  /\ selectedIndex = 0
  /\ tickPending = TRUE
  /\ crashed = FALSE
  /\ titleFetch = <<>>
  /\ download = <<>>
  /\ emitted = <<>>
  /\ consumed = <<>>
  /\ reads = 0
  /\ written = <<>>

HistoryNext ==
  \/ \E info \in Records : HistoryAppend(info)
  \/ HistoryLoad

HistorySpec == HistoryInit /\ [][HistoryNext]_vars

\* the receive of line 160 on entry i finds its channel closed: the input of
\* the branch "if !ok" of lines 161-171.  No statement of the program closes
\* ProgressCh (DownloadStreamWithProgress leaves it to its caller, line 105,
\* and startDownloadCmd does not do it), so the action is part of no
\* specification of the program's goroutines: it stands for the input the
\* branch is written for, in the specifications that check the branch.
ProgressChClosed(i) ==
  /\ ~crashed
  /\ ~videoQueue[i].ProgressCh.closed
  /\ videoQueue' = [videoQueue EXCEPT ![i].ProgressCh.closed = TRUE]
  /\ UNCHANGED <<history, selectedIndex, tickPending, file, crashed,
                 titleFetch, download, emitted, consumed, reads, written>>

\* the keys up and down, the drain with its completion branch, and the
\* history file growing by the records of finished downloads
SelectNext ==
  \/ \E input \in Inputs : UpdateEnter(input, MaxQueue)
  \/ UpdateKeyUp
  \/ UpdateKeyDown
  \/ UpdateSetFormat
  \/ \E i \in Entries : ProgressChClosed(i)
  \/ \E info \in Records : HistoryAppend(info)

SelectSpec == Init /\ [][SelectNext]_vars

\* every message Update handles, on up to MaxQueue entries: the keys, the
\* title messages of lookups that print a title, the drain of the
\* events of downloads that fail to start and of closed channels, and the
\* tick
QueueNext ==
  \/ \E input \in Inputs : UpdateEnter(input, MaxQueue)
  \/ UpdateKeyUp
  \/ UpdateKeyDown
  \/ UpdateSetFormat
  \/ UpdateTick
  \/ \E i \in Entries : UpdateTitleFetched(i)
  \/ \E i \in Entries, o \in { x \in LookupOutcomes : x.out = "Big Buck Bunny" } :
       FetchTitleAsync(i, o)
  \/ \E i \in Entries : fetchTitleCmdResult(i)
  \/ \E i \in Entries : DownloadStart(i)
  \/ \E i \in Entries : ProgressChClosed(i)

QueueSpec == Init /\ [][QueueNext]_vars

\* the title lookups of the entries submitted from Inputs and NameInputs
NameNext ==
  \/ \E input \in Inputs \cup NameInputs : UpdateEnter(input, MaxDownloads)
  \/ \E i \in Entries : UpdateTitleFetched(i)
  \/ \E i \in Entries, o \in LookupOutcomes : FetchTitleAsync(i, o)
  \/ \E i \in Entries : fetchTitleCmdResult(i)
  \/ \E i \in Entries : fetchTitleCmdTimeout(i)

NameSpec == Init /\ [][NameNext]_vars

\* one download whose streams yield lines of ParseLines, and the drain
ParseNext ==
  \/ \E input \in Inputs : UpdateEnter(input, MaxDownloads)
  \/ UpdateSetFormat
  \/ \E i \in Entries : DownloadStart(i)
  \/ \E i \in Entries, s \in Streams, raw \in ParseLines :
       readOutputLine(i, s, ParseScanned[raw], MaxLines)

ParseSpec == Init /\ [][ParseNext]_vars

\* one download whose stdout reports every percent while its stderr gives
\* numbered warnings late in the download, and the drain
OrderNext ==
  \/ \E input \in Inputs : UpdateEnter(input, MaxDownloads)
  \/ UpdateSetFormat
  \/ \E i \in Entries : DownloadStart(i)
  \/ \E i \in Entries :
       /\ ReadCount(i, "stdout") < FloodLines
       /\ readOutputLine(i, "stdout", FloodScanned[ReadCount(i, "stdout") + 1],
                         FloodLines)
  \/ \E i \in Entries :
       /\ ReadCount(i, "stderr") < MaxErrLines
       /\ ReadCount(i, "stdout") >= WarnAfter
       /\ readOutputLine(i, "stderr", WarningScanned[ReadCount(i, "stderr") + 1],
                         FloodLines)

OrderSpec == Init /\ [][OrderNext]_vars

\* one download whose stderr yields lines of Lines and which fails or
\* succeeds, up to the metadata step, and the drain
LogNext ==
  \/ \E input \in Inputs : UpdateEnter(input, MaxDownloads)
  \/ UpdateSetFormat
  \/ \E i \in Entries : DownloadStart(i)
  \/ \E i \in Entries, raw \in Lines :
       readOutputLine(i, "stderr", Scanned[raw], MaxLogLines)
  \/ \E i \in Entries, s \in Streams : readOutputEOF(i, s)
  \/ \E i \in Entries : DownloadWait(i)
  \/ \E i \in Entries : DownloadMarker(i)

LogSpec == Init /\ [][LogNext]_vars

(***************************************************************************)
(* Properties                                                              *)
(***************************************************************************)

Last(q) == q[Len(q)]

\* the first n elements of q (all of q when it is shorter)
Take(q, n) == SubSeq(q, 1, IF Len(q) < n THEN Len(q) ELSE n)

\* the invocations of entry i's callback with an empty line
Markers(i) == { k \in 1..Len(emitted[i]) : emitted[i][k].Line = "" }

\* the subprocess of entry i was started and has exited, and the supervisor
\* has returned
Exited(i) ==
  download[i].pc = "returned" /\ download[i].outcome \in {"failed", "ok"}

\* every event entry i's channel ever accepted, oldest first
Accepted(i) == consumed[i] \o videoQueue[i].ProgressCh.buf

\* C1: when Update receives the stream-end event (1.0, "") of an entry, the
\* entry's Done goes from false to true, and an entry that is Done receives
\* no further event: its Percent and Log stay as they are.
C1_StreamEndMarksDone ==
  [][\A i \in Entries :
       /\ (consumed'[i] # consumed[i] /\ Last(consumed'[i]) = EndMarker)
            => (~videoQueue[i].Done /\ videoQueue'[i].Done)
       /\ videoQueue[i].Done
            => /\ consumed'[i] = consumed[i]
               /\ videoQueue'[i].Percent = videoQueue[i].Percent
               /\ videoQueue'[i].Log = videoQueue[i].Log]_vars

\* C2 as claimed: a run of DownloadStreamWithProgress that has returned, on
\* whatever path, has invoked the callback exactly once with an empty line,
\* and that was its last invocation.
C2_MarkerOnEveryPath ==
  \A i \in Entries :
    download[i].pc = "returned"
      => Cardinality(Markers(i)) = 1 /\ Last(emitted[i]) = EndMarker

\* C2 as amended: no run invokes the callback with an empty line twice, nor
\* invokes it again after that; a run that started the subprocess and has
\* returned has invoked it so, (1.0, ""), as its last invocation; a run that
\* ended on a pipe or start error has returned after the one invocation
\* (0, error text), without the marker.
C2_MarkerOnceStarted ==
  \A i \in Entries :
    /\ Cardinality(Markers(i)) <= 1
    /\ Markers(i) # {} => Last(emitted[i]) = EndMarker
    /\ Exited(i) => Markers(i) # {}
    /\ (download[i].pc = "returned" /\ download[i].outcome = "spawnerr")
         => /\ Markers(i) = {}
            /\ Len(emitted[i]) = 1
            /\ emitted[i][1].Fraction = 0

\* C2, witness: a download succeeded, its record was written and the run
\* returned after the marker
C2_Witness ==
  \E i \in Entries :
    /\ Exited(i)
    /\ download[i].outcome = "ok"
    /\ written # <<>>
    /\ Last(emitted[i]) = EndMarker

\* C3: under fair scheduling of the drains, the ticks and the supervisor's
\* steps, an entry whose subprocess has exited and whose supervisor has
\* returned is eventually Done.
C3_ExitedEventuallyDone ==
  \A i \in 1..MaxDownloads :
    (i \in Entries /\ Exited(i) /\ ~crashed)
      ~> (i \in Entries /\ videoQueue[i].Done)

\* C4: a channel never holds more than ProgressChCap events; a callback on a
\* full channel leaves it as it is and returns (the run goes on: the event
\* is in emitted); the events a channel accepts are accepted in the order
\* of their emission, and until the first drain they are the oldest
\* ProgressChCap of the events emitted, which is all the consumer gets of
\* them.
C4_Backpressure ==
  [][\A i \in Entries :
       LET full == Len(videoQueue[i].ProgressCh.buf) = ProgressChCap
       IN  /\ Len(videoQueue'[i].ProgressCh.buf) <= ProgressChCap
           /\ (emitted'[i] # emitted[i] /\ full)
                => videoQueue'[i].ProgressCh = videoQueue[i].ProgressCh
           /\ (emitted'[i] # emitted[i] /\ ~full)
                => Accepted(i)' = Append(Accepted(i), Last(emitted'[i]))
           /\ emitted'[i] = emitted[i] => Accepted(i)' = Accepted(i)
           /\ consumed'[i] = <<>>
                => videoQueue'[i].ProgressCh.buf = Take(emitted'[i], ProgressChCap)]_vars

\* C4, witness: more than ProgressChCap events were emitted before the first
\* drain, and the consumer has received the oldest ProgressChCap of them and
\* nothing else
C4_Witness ==
  \E i \in Entries :
    /\ Len(emitted[i]) > ProgressChCap
    /\ consumed[i] = Take(emitted[i], ProgressChCap)
    /\ videoQueue[i].ProgressCh.buf = <<>>

\* C5: an event Update receives with a negative fraction leaves the entry's
\* Percent as it is; one with a fraction >= 0 makes Percent that fraction,
\* lower than before or not.
C5_PercentLastWins ==
  [][\A i \in Entries :
       consumed'[i] # consumed[i]
         => LET ev == Last(consumed'[i])
            IN  videoQueue'[i].Percent =
                  IF ev.Fraction < 0 THEN videoQueue[i].Percent ELSE ev.Fraction]_vars

\* C5, witness: an entry has received a fraction, then a lower one, then the
\* sentinel, and its Percent is the lower one
C5_Witness ==
  \E i \in Entries :
    /\ Len(consumed[i]) = 3
    /\ consumed[i][1].Fraction > consumed[i][2].Fraction
    /\ consumed[i][2].Fraction > 0
    /\ consumed[i][3].Fraction < 0
    /\ videoQueue[i].Percent = consumed[i][2].Fraction

\* C6: after a pipe or start error the supervisor has returned (no panic),
\* its one event, of fraction 0, went into the entry's channel, no reader
\* was started, and the entry is not Done.
C6_SpawnError ==
  \A i \in Entries :
    download[i].outcome = "spawnerr"
      => /\ download[i].pc = "returned"
         /\ \E msg \in SpawnErrors : emitted[i] = <<Event(0, msg)>>
         /\ Accepted(i) = emitted[i]
         /\ download[i].stderr = "idle"
         /\ download[i].stdout = "idle"
         /\ ~videoQueue[i].Done

\* C6, witness: the error event of a failed start was received by Update
C6_Witness ==
  \E i \in Entries :
    /\ download[i].outcome = "spawnerr"
    /\ consumed[i] = <<Event(0, "Error starting download: err")>>
    /\ videoQueue[i].Log = <<"Error starting download: err">>

\* the submitted URLs of Inputs, as the queue holds them
WatchURL == "https://www.youtube.com/watch?v=xyz&t=1"

ShortURL == "https://youtu.be/abc123?t=5"

\* what the spec's rule makes of each: the label followed by the identifier
FallbackName == [u \in {WatchURL, ShortURL} |->
                   IF u = WatchURL THEN "YouTube Video: xyz"
                   ELSE "YouTube Video: abc123"]

\* the fallback name in capitals
FallbackNameUpper == [u \in {WatchURL, ShortURL} |->
                        IF u = WatchURL THEN "YOUTUBE VIDEO: XYZ"
                        ELSE "YOUTUBE VIDEO: ABC123"]

\* the URL in capitals, cut to 25 characters and "..." where it is longer
\* than 28
RawName == [u \in {WatchURL, ShortURL} |->
              IF u = WatchURL THEN "HTTPS://WWW.YOUTUBE.COM/W..."
              ELSE "HTTPS://YOUTU.BE/ABC123?T=5"]

\* a title message that carries no title of the video: the lookup failed or
\* timed out (err), or printed nothing
NoTitle(msg) == msg.err \/ msg.title \notin Titles

\* Update receives the title message of the fetchTitleCmd of entry i
TitleStep(i) == titleFetch[i].cmd = "sent" /\ titleFetch'[i].cmd = "done"

\* the first entry of the queue with the URL u
FirstWithURL(u) ==
  CHOOSE k \in Entries :
    /\ videoQueue[k].URL = u
    /\ \A j \in Entries : videoQueue[j].URL = u => k <= j

C8_TitleOncePerEntry ==
  [][\A i \in Entries :
       /\ TitleStep(i) => (~videoQueue[i].TitleFetched /\ videoQueue'[i].TitleFetched)
       /\ videoQueue[i].TitleFetched
            => videoQueue'[i].Name = videoQueue[i].Name]_vars

\* the file is there and json.Unmarshal of it into a []VideoInfo fails
Unparseable(f) == f.kind # "missing" /\ UnmarshalError(f)

\* C9: the load of a missing or unparseable file is empty; a record appended
\* to such a file gives a file whose load is that record alone; a record
\* appended to any file comes last in the load, after what the load was
\* (so R1 then R2 appended to an empty store load as R1, R2).
C9_AppendOrder ==
  [][/\ (file.kind = "missing" \/ Unparseable(file)) => loadHistory(file) = <<>>
     /\ written' # written
          => /\ loadHistory(file') = Append(loadHistory(file), Last(written'))
             /\ (file.kind = "missing" \/ Unparseable(file))
                  => loadHistory(file') = <<Last(written')>>]_vars

\* no os.WriteFile is between its truncation and its write
NoWriteInProgress == \A i \in Entries : download[i].pc # "write2"

\* C10: a record that was written to the history file is in the file in
\* every later state in which no write is in progress.
C10_AppendOnly ==
  NoWriteInProgress
    => \A k \in 1..Len(written) :
         \E j \in 1..Len(loadHistory(file)) : loadHistory(file)[j] = written[k]

\* C11: no failure of the metadata step of a successful download ends the
\* process: the program is never in a panic, and a supervisor whose
\* metadata step has been passed still emits the marker (it is at the
\* marker, or has returned with the marker as its last event).
C11_MetadataFailureIgnored ==
  /\ ~crashed
  /\ \A i \in Entries :
       (download[i].outcome = "ok" /\ download[i].pc = "returned")
         => Last(emitted[i]) = EndMarker

\* C12: the handling of a tick message receives, for every entry that is not
\* Done and whose channel holds an event, the oldest event of the channel,
\* and schedules the next tick.
C12_TickDrains ==
  [][UpdateTick
       => /\ tickPending'
          /\ \A i \in Entries :
               (~videoQueue[i].Done /\ videoQueue[i].ProgressCh.buf # <<>>)
                 => consumed'[i] =
                      Append(consumed[i], Head(videoQueue[i].ProgressCh.buf))]_vars

\* C13: the name extractURLName gives for the URL of a lookup that printed
\* no title is never empty.
C13_FallbackNameNonEmpty ==
  \A i \in Entries :
    /\ extractURLName(videoQueue[i].URL) # ""
    /\ titleFetch[i].resultCh # <<>> => Head(titleFetch[i].resultCh).title # ""

\* what the rule of the spec gives for the lines of ParseLines, in
\* thousandths: the percentage over 100 where the line has a percentage
\* after the marker "[download]" and blanks
PercentRule ==
  [line \in { "[download]  50.5% of 10MiB", "[download]   7.0% Extracting merging",
              "[download] 0.0% of 9MiB", "[download] 100% of 9MiB finished" } |->
     CASE line = "[download]  50.5% of 10MiB" -> 505
       [] line = "[download]   7.0% Extracting merging" -> 70
       [] line = "[download] 0.0% of 9MiB" -> 0
       [] line = "[download] 100% of 9MiB finished" -> 1000]

\* the first milestone, in the order extraction, download marker, video,
\* audio, merge, finished, of a line with no such percentage; -1000 where
\* there is none
MilestoneRule ==
  [line \in { "[youtube] Extracting URL: merging finished",
              "[youtube] abc: Downloading webpage",
              "[DOWNLOAD] 12% downloading video", "[download]50% completed",
              "[info] Downloading video and downloading audio",
              "[info] downloading audio, merging",
              "[Merger] Merging formats, finished",
              "[ffmpeg] Post-Processing completed", "Finished", "Completed",
              "hello", "[download] Destination: a.mp4" } |->
     CASE line \in { "[youtube] Extracting URL: merging finished",
                     "[youtube] abc: Downloading webpage" } -> 50
       [] line \in { "[DOWNLOAD] 12% downloading video",
                     "[download]50% completed" } -> 300
       [] line = "[info] Downloading video and downloading audio" -> 400
       [] line = "[info] downloading audio, merging" -> 700
       [] line \in { "[Merger] Merging formats, finished",
                     "[ffmpeg] Post-Processing completed" } -> 900
       [] line \in { "Finished", "Completed" } -> 1000
       [] OTHER -> -1000]

\* C14: the fraction of the event of a line with a percentage in 0..100 is
\* that percentage over 100, whatever milestone words the line has; that of
\* a line without a percentage is its first milestone in the fixed order,
\* or -1.
C14_ParsePriority ==
  \A i \in Entries : \A k \in 1..Len(emitted[i]) :
    LET ev == emitted[i][k]
    IN  /\ ev.Line \in DOMAIN PercentRule => ev.Fraction = PercentRule[ev.Line]
        /\ ev.Line \in DOMAIN MilestoneRule => ev.Fraction = MilestoneRule[ev.Line]

\* C14, witness: a stream gave a percentage line with milestone words and a
\* line with the marker in capitals and a later milestone, and Update has
\* received both
C14_Witness ==
  \E i \in Entries :
    /\ Len(consumed[i]) = 2
    /\ consumed[i][1] = Event(70, "[download]   7.0% Extracting merging")
    /\ consumed[i][2] = Event(300, "[DOWNLOAD] 12% downloading video")
    /\ videoQueue[i].Percent = 300

\* C15: the fraction of every event of a line is -1 or in [0, 1], and the
\* Percent of every entry is in [0, 1].
C15_FractionRange ==
  \A i \in Entries :
    /\ videoQueue[i].Percent \in 0..FracUnit
    /\ \A k \in 1..Len(emitted[i]) :
         emitted[i][k].Fraction \in {-FracUnit} \cup 0..FracUnit

\* the lines of the two completion events
CompletionLines == { "Download failed: err", "Variant pruned - Timeline restored!" }

\* the line of the read error event of stream s
ReadErrorLine(s) == "Error reading " \o s \o ": err"

\* C16: when the completion event of a download has been emitted, both
\* readers have returned and the subprocess has exited, and every event
\* emitted after it is the marker; nothing is emitted after the marker.
C16_CompletionAfterReaders ==
  \A i \in Entries : \A k \in 1..Len(emitted[i]) :
    /\ emitted[i][k].Line \in CompletionLines
         => /\ emitted[i][k].Fraction = FracUnit
            /\ download[i].stderr = "done"
            /\ download[i].stdout = "done"
            /\ download[i].outcome \in {"failed", "ok"}
            /\ \A j \in (k + 1)..Len(emitted[i]) : emitted[i][j] = EndMarker
    /\ emitted[i][k] = EndMarker => k = Len(emitted[i])

\* C16, witness: both streams gave something, the download failed, and the
\* run returned: two line events, the completion event, the marker
C16_Witness ==
  \E i \in Entries :
    /\ Exited(i)
    /\ Len(emitted[i]) = 4
    /\ emitted[i][1] = Event(-FracUnit, ReadErrorLine("stdout"))
    /\ emitted[i][2].Line = "[Merger] Merging formats"
    /\ emitted[i][3] = Event(FracUnit, "Download failed: err")
    /\ emitted[i][4] = EndMarker

\* C17: the step that emits the read error event (-1, text) of a stream
\* ends the reader of that stream, leaves the other reader and the
\* supervisor as they are, and is the only such event of the stream; a run
\* that has then returned has emitted the completion event and the marker
\* as its last two events.
C17_ReadErrorEndsOneReader ==
  [][\A i \in Entries : \A s \in Streams :
       /\ (emitted'[i] # emitted[i] /\ Last(emitted'[i]).Line = ReadErrorLine(s))
            => /\ Last(emitted'[i]).Fraction = -FracUnit
               /\ download[i][s] = "reading"
               /\ download'[i] = [download[i] EXCEPT ![s] = "done"]
               /\ download[i].pc = "readers"
               /\ \A k \in 1..Len(emitted[i]) : emitted[i][k].Line # ReadErrorLine(s)
       /\ ((\E k \in 1..Len(emitted[i]) : emitted[i][k].Line = ReadErrorLine(s))
             /\ Exited(i))
            => /\ Len(emitted[i]) >= 3
               /\ emitted[i][Len(emitted[i]) - 1].Line \in CompletionLines
               /\ Last(emitted[i]) = EndMarker]_vars

\* C17, witness: stderr failed, stdout gave a line after that, and the run
\* went on to the completion event and the marker, all received by Update
C17_Witness ==
  \E i \in Entries :
    /\ Exited(i)
    /\ Len(consumed[i]) = 4
    /\ consumed[i][1] = Event(-FracUnit, ReadErrorLine("stderr"))
    /\ consumed[i][2] = Event(500, "[download]  50.0% of 9MiB")
    /\ consumed[i][3].Line \in CompletionLines
    /\ consumed[i][4] = EndMarker

\* C18: an event of a stream's line that Update receives is of a line the
\* reader of that stream has read, and that line comes later in the stream
\* than the line of every event of the stream received before.
C18_StreamOrder ==
  [][\A i \in Entries :
       consumed'[i] # consumed[i]
         => LET ev == Last(consumed'[i])
                s  == StreamOf(ev.Line)
            IN  s # ""
                  => /\ LineNumber(ev.Line) <= ReadCount(i, s)
                     /\ \A k \in 1..Len(consumed[i]) :
                          StreamOf(consumed[i][k].Line) = s
                            => LineNumber(consumed[i][k].Line) < LineNumber(ev.Line)]_vars

\* C18, witness: the warning of stderr came between two lines of stdout,
\* line 50 of stdout was dropped on the full channel, and Update has
\* received the warning, line 49 and then line 51
C18_Witness ==
  \E i \in Entries :
    /\ Len(consumed[i]) = ProgressChCap + 1
    /\ consumed[i][ProgressChCap - 1].Line = WarningScanned[1].line
    /\ consumed[i][ProgressChCap].Line = FloodScanned[ProgressChCap - 1].line
    /\ consumed[i][ProgressChCap + 1].Line = FloodScanned[ProgressChCap + 1].line

\* the message of fetchTitleCmd when the timer wins
TimeoutMsg(i) == [url |-> videoQueue[i].URL, title |-> "", err |-> TRUE]

\* C19: the send of a worker that has not delivered its result can
\* proceed, whatever the command has done; the command of a submission
\* returns one title message: the result of the lookup if that is in
\* resultCh, else the timeout message; once returned the message does not
\* change, no second one follows, and a result that comes later stays in
\* resultCh.
C19_OneTitleMessage ==
  [][\A i \in Entries :
       /\ titleFetch[i].worker = "running" => CanSendResult(i)
       /\ (titleFetch[i].cmd = "select" /\ titleFetch'[i].cmd # "select")
            => /\ titleFetch'[i].cmd = "sent"
               /\ titleFetch'[i].msg =
                    IF titleFetch[i].resultCh # <<>>
                    THEN Head(titleFetch[i].resultCh) ELSE TimeoutMsg(i)
       /\ titleFetch[i].cmd # "select"
            => /\ titleFetch'[i].msg = titleFetch[i].msg
               /\ titleFetch'[i].cmd \in {titleFetch[i].cmd, "done"}
               /\ titleFetch[i].resultCh # <<>>
                    => titleFetch'[i].resultCh = titleFetch[i].resultCh
       /\ titleFetch[i].worker = "done" => titleFetch'[i].worker = "done"]_vars

\* C19, witness: the timer won, Update has received the timeout message,
\* and the worker has put its late result into resultCh, where it stays
C19_Witness ==
  \E i \in Entries :
    /\ titleFetch[i].cmd = "done"
    /\ titleFetch[i].msg = TimeoutMsg(i)
    /\ titleFetch[i].worker = "done"
    /\ titleFetch[i].resultCh # <<>>
    /\ Head(titleFetch[i].resultCh).title = "Big Buck Bunny"

\* the lines of the events of q that have one, in the order of q
NonEmptyLines(q) ==
  LET hasLine(ev) == ev.Line # ""
      evs == SelectSeq(q, hasLine)
  IN  [k \in 1..Len(evs) |-> evs[k].Line]

\* the last n elements of q (all of q when it is shorter)
LastN(q, n) == IF Len(q) <= n THEN q ELSE SubSeq(q, Len(q) - n + 1, Len(q))

\* C20: the Log of an entry holds at most 5 lines, none empty: the last 5
\* (or fewer) non-empty lines of the events Update has received for the
\* entry, in the order received.
C20_LogRecent ==
  \A i \in Entries :
    /\ Len(videoQueue[i].Log) <= 5
    /\ \A k \in 1..Len(videoQueue[i].Log) : videoQueue[i].Log[k] # ""
    /\ videoQueue[i].Log = LastN(NonEmptyLines(consumed[i]), 5)

\* C20, witness: Update has received five lines, the failure event and the
\* marker; the first line is gone from the Log and the marker has left it
\* as it was
C20_Witness ==
  \E i \in Entries :
    /\ Len(consumed[i]) = 7
    /\ consumed[i][7] = EndMarker
    /\ consumed[i][1].Line # consumed[i][2].Line
    /\ Len(videoQueue[i].Log) = 5
    /\ videoQueue[i].Log[1] = consumed[i][2].Line
    /\ videoQueue[i].Log[5] = "Download failed: err"

C22_QueueLifecycle ==
  [][/\ Len(videoQueue') >= Len(videoQueue)
     /\ Len(videoQueue') <= Len(videoQueue) + 1
     /\ \A k \in 1..Len(videoQueue) :
          /\ videoQueue'[k].URL = videoQueue[k].URL
          /\ videoQueue[k].Done => videoQueue'[k].Done
          /\ videoQueue[k].TitleFetched => videoQueue'[k].TitleFetched
     /\ Len(videoQueue') = Len(videoQueue) + 1
          => /\ videoQueue'[Len(videoQueue')].URL
                  \in {"https://youtu.be/abc123?t=5",
                       "https://www.youtube.com/watch?v=xyz&t=1"}
             /\ ~videoQueue'[Len(videoQueue')].Done
             /\ ~videoQueue'[Len(videoQueue')].TitleFetched
     /\ UpdateEnter("  ", MaxQueue) => videoQueue' = videoQueue
     /\ \A input \in Inputs \ {"  "} :
          UpdateEnter(input, MaxQueue) => Len(videoQueue') = Len(videoQueue) + 1
    ]_vars

\* C22, witness: two entries of different URLs, the first of them done and
\* titled after events of its channel were applied, the second neither
C22_Witness ==
  /\ Len(videoQueue) = 2
  /\ videoQueue[1].URL = "https://youtu.be/abc123?t=5"
  /\ videoQueue[2].URL = "https://www.youtube.com/watch?v=xyz&t=1"
  /\ videoQueue[1].Done /\ videoQueue[1].TitleFetched
  /\ consumed[1] # <<>>
  /\ ~videoQueue[2].Done /\ ~videoQueue[2].TitleFetched

====
